---------------------------- MODULE Spec2Model ----------------------------
(***************************************************************************)
(* Model of monitor-picker.py: the persistence merge of monitors.conf     *)
(* (rewrite_monitors_conf), program start-up (main), the interactive     *)
(* placement session (MonitorPicker.on_key) and the command view with the *)
(* symbolic directive (_build_display_cmd, _update_cmd).                  *)
(*                                                                         *)
(* Text is modelled as a sequence of one-character strings, so that       *)
(* strip, startswith, substring search, line splitting and number         *)
(* formatting are computed the way Python computes them.                  *)
(***************************************************************************)
EXTENDS Integers, Sequences, FiniteSets, TLC

VARIABLES
    conf,       \* monitors.conf on disk: [exists, data]
    conf0,      \* history: monitors.conf when the run started
    conf1,      \* history: monitors.conf after the first merge (SpecMerge)
    configs,    \* argument of the last rewrite_monitors_conf call: <<name, cfg>>*
    calls,      \* number of merges that wrote the file
    pc,         \* "main", "session" (inside Gtk.main), "quit" (Gtk.main returned), "exited"
    args,       \* sys.argv[1:]
    snapshot,   \* what get_all_monitors returns: sequence of monitor info dicts
    writable,   \* environment: whether monitors.conf can be opened for writing
    current,    \* MonitorPicker.current
    new_mon,    \* MonitorPicker.new_mon
    pos_index,  \* MonitorPicker.pos_index
    offset,     \* MonitorPicker.offset
    new_scale_tenths,   \* MonitorPicker.new_scale_tenths
    result,     \* MonitorPicker.result
    cmd_text,   \* text of the command view, as lines (set by _update_cmd)
    overlap,    \* the overlap flag _update_cmd computed last (warning colour)
    stdout,     \* lines printed to the output stream
    stderr,     \* diagnostics written to the error stream
    exit_code,  \* process exit status, -1 while running
    nkeys,      \* number of key events delivered so far
    ended_by,   \* history: the key whose handler called Gtk.main_quit
    write_failed,   \* history: a write of monitors.conf raised
    last_ev     \* history: the offset-key event on_key handled last, else NoEv

mergeVars == <<conf, conf0, conf1, configs, calls>>
envVars == <<args, snapshot, writable>>
pickerVars == <<current, new_mon, pos_index, offset, new_scale_tenths, result>>
viewVars == <<cmd_text, overlap>>
procVars == <<pc, stdout, stderr, exit_code, nkeys, ended_by, write_failed>>
vars == <<mergeVars, envVars, pickerVars, viewVars, procVars, last_ev>>

(***************************************************************************)
(* Bounds of the model                                                     *)
(***************************************************************************)
MaxLines == 3       \* lines of the initial monitors.conf
MaxNames == 2       \* entries of the update mapping
MaxKeys == 3        \* key events delivered to one session
MaxOffset == 75     \* largest |offset| a session is driven to

(***************************************************************************)
(* Text helpers (Python str operations)                                    *)
(***************************************************************************)
NL == "\n"
Whitespace == {" ", "\t", NL}

Min(S) == CHOOSE x \in S : \A y \in S : x <= y

RECURSIVE lstrip(_)
lstrip(s) == IF s # <<>> /\ Head(s) \in Whitespace THEN lstrip(Tail(s)) ELSE s

RECURSIVE rstrip(_)
rstrip(s) ==
    IF s # <<>> /\ s[Len(s)] \in Whitespace
    THEN rstrip(SubSeq(s, 1, Len(s) - 1))
    ELSE s

\* str.strip()
strip(s) == rstrip(lstrip(s))

\* str.startswith(p)
startswith(s, p) == Len(s) >= Len(p) /\ SubSeq(s, 1, Len(p)) = p

\* p in s
contains(s, p) ==
    \E i \in 0..(Len(s) - Len(p)) : SubSeq(s, i + 1, i + Len(p)) = p

\* iteration over an open text file: each item ends with its "\n", except
\* possibly the last one
RECURSIVE readlines(_)
readlines(s) ==
    IF s = <<>> THEN <<>>
    ELSE LET ends == {i \in 1..Len(s) : s[i] = NL}
             k    == IF ends = {} THEN Len(s) ELSE Min(ends)
         IN  <<SubSeq(s, 1, k)>> \o readlines(SubSeq(s, k + 1, Len(s)))

\* file.writelines(lines)
RECURSIVE writelines(_)
writelines(lines) ==
    IF lines = <<>> THEN <<>> ELSE Head(lines) \o writelines(Tail(lines))

(***************************************************************************)
(* monitors.conf persistence                                               *)
(***************************************************************************)
KEYWORD == <<"m", "o", "n", "i", "t", "o", "r">>
EqSp == <<"=", " ">>
MonitorEq == KEYWORD \o <<" ", "=", " ">>

\* f"monitor = {cfg}\n"
MonitorLine(cfg) == MonitorEq \o cfg \o <<NL>>

\* the inner loop of the scan: index in `remaining` of the first name the
\* line matches, 0 when the line is kept
MatchIndex(stripped, remaining) ==
    IF ~startswith(stripped, KEYWORD) THEN 0
    ELSE LET M == {i \in 1..Len(remaining) :
                      \/ contains(stripped, EqSp \o remaining[i][1])
                      \/ contains(stripped, EqSp \o remaining[i][1] \o <<",">>)}
         IN  IF M = {} THEN 0 ELSE Min(M)

RemoveAt(s, i) == SubSeq(s, 1, i - 1) \o SubSeq(s, i + 1, Len(s))

\* the scan of the existing file: returns the lines collected and the names
\* that are still pending
RECURSIVE ScanLines(_, _, _)
ScanLines(input, remaining, lines) ==
    IF input = <<>> THEN [lines |-> lines, remaining |-> remaining]
    ELSE LET line == Head(input)
             i    == MatchIndex(strip(line), remaining)
         IN  IF i # 0
             THEN ScanLines(Tail(input), RemoveAt(remaining, i),
                            Append(lines, MonitorLine(remaining[i][2])))
             ELSE ScanLines(Tail(input), remaining, Append(lines, line))

\* the trailing loop: one new line per name left over
AppendRemaining(lines, remaining) ==
    lines \o [i \in 1..Len(remaining) |-> MonitorLine(remaining[i][2])]

rewrite_monitors_conf(cfgs, file) ==
    LET input == IF file.exists THEN readlines(file.data) ELSE <<>>
        sc    == ScanLines(input, cfgs, <<>>)
    IN  [exists |-> TRUE,
         data   |-> writelines(AppendRemaining(sc.lines, sc.remaining))]


(***************************************************************************)
(* SpecMerge: rewrite_monitors_conf as a function of the file and the      *)
(* update mapping, applied twice in a row                                  *)
(***************************************************************************)
eDP1 == <<"e", "D", "P", "-", "1">>
DP1  == <<"D", "P", "-", "1">>
DP10 == <<"D", "P", "-", "1", "0">>
OutputNames == {eDP1, DP1, DP10}

Comment == <<"#", " ", "c">>
Blank   == <<>>
EnvLine == <<"e", "n", "v", " ", "=", " ", "F">>
\* a directive already in the file for `name`
OldDirective(name) == MonitorEq \o name \o <<",", " ", "o">>
\* the directive body the caller passes for `name`
NewCfg(name) == name \o <<",", " ", "n">>

LinePool ==
    {Comment, Blank, EnvLine, <<" ">> \o OldDirective(eDP1)}
        \cup {OldDirective(n) : n \in OutputNames}

SeqsUpTo(S, n) == UNION {[1..k -> S] : k \in 0..n}

\* the text of a file made of `texts`, the last line with or without its "\n"
RECURSIVE FileText(_, _)
FileText(texts, terminated) ==
    IF texts = <<>> THEN <<>>
    ELSE IF Len(texts) = 1 /\ ~terminated THEN Head(texts)
    ELSE Head(texts) \o <<NL>> \o FileText(Tail(texts), terminated)

NoFile == [exists |-> FALSE, data |-> <<>>]
Files ==
    {NoFile} \cup {[exists |-> TRUE, data |-> FileText(t, e)] :
                      t \in SeqsUpTo(LinePool, MaxLines), e \in BOOLEAN}

Injective(f) == \A i, j \in DOMAIN f : f[i] = f[j] => i = j
\* the update mappings: a dict keeps insertion order
Mappings ==
    {[i \in DOMAIN ns |-> <<ns[i], NewCfg(ns[i])>>] :
        ns \in {s \in SeqsUpTo(OutputNames, MaxNames) : Injective(s)}}

None == [none |-> TRUE]
\* no offset-key event
NoEv == [key |-> "none", ctrl |-> FALSE, alt |-> FALSE, shift |-> FALSE]

\* no process is running: only the merge function is exercised
Idle ==
    /\ pc = "merge"
    /\ args = <<>>
    /\ snapshot = <<>>
    /\ writable = TRUE
    /\ current = None
    /\ new_mon = None
    /\ pos_index = 1
    /\ offset = 0
    /\ new_scale_tenths = 10
    /\ result = None
    /\ stdout = <<>>
    /\ stderr = <<>>
    /\ exit_code = -1
    /\ nkeys = 0
    /\ ended_by = "none"
    /\ write_failed = FALSE
    /\ cmd_text = <<>>
    /\ overlap = FALSE
    /\ last_ev = NoEv

InitMerge ==
    /\ conf0 \in Files
    /\ conf = conf0
    /\ conf1 = conf0
    /\ configs \in Mappings
    /\ calls = 0
    /\ Idle

\* rewrite_monitors_conf(configs)
Rewrite ==
    /\ calls < 2
    /\ conf' = rewrite_monitors_conf(configs, conf)
    /\ conf1' = IF calls = 0 THEN conf' ELSE conf1
    /\ calls' = calls + 1
    /\ UNCHANGED <<conf0, configs, envVars, pickerVars, viewVars, procVars,
                   last_ev>>

NextMerge == Rewrite

SpecMerge == InitMerge /\ [][NextMerge]_vars

\* the same, from files whose last line ends with "\n"
Terminated(file) == file.data = <<>> \/ file.data[Len(file.data)] = NL
InitMergeLF == InitMerge /\ Terminated(conf0)
SpecMergeLF == InitMergeLF /\ [][NextMerge]_vars

(***************************************************************************)
(* Vocabulary of the claims about the merge                                *)
(***************************************************************************)
\* a line without its line terminator
Text(line) ==
    IF line # <<>> /\ line[Len(line)] = NL
    THEN SubSeq(line, 1, Len(line) - 1)
    ELSE line

IsDirective(line) == startswith(strip(line), KEYWORD)

\* the monitor name a directive line configures: the first comma-separated
\* field after the "="
DirectiveName(line) ==
    LET s   == strip(line)
        eqs == {i \in 1..Len(s) : s[i] = "="}
    IN  IF eqs = {} THEN <<>>
        ELSE LET rest == SubSeq(s, Min(eqs) + 1, Len(s))
                 cs   == {i \in 1..Len(rest) : rest[i] = ","}
             IN  strip(IF cs = {} THEN rest ELSE SubSeq(rest, 1, Min(cs) - 1))

InLines  == IF conf0.exists THEN readlines(conf0.data) ELSE <<>>
OutLines == IF conf.exists THEN readlines(conf.data) ELSE <<>>
Keys(cfgs) == {cfgs[i][1] : i \in DOMAIN cfgs}

RECURSIVE IsSubseq(_, _)
IsSubseq(a, b) ==
    IF a = <<>> THEN TRUE
    ELSE IF b = <<>> THEN FALSE
    ELSE IF Head(a) = Head(b) THEN IsSubseq(Tail(a), Tail(b))
    ELSE IsSubseq(a, Tail(b))

RECURSIVE NonDirectiveTexts(_)
NonDirectiveTexts(lines) ==
    IF lines = <<>> THEN <<>>
    ELSE (IF IsDirective(Head(lines)) THEN <<>> ELSE <<Text(Head(lines))>>)
             \o NonDirectiveTexts(Tail(lines))

Texts(lines) == [i \in DOMAIN lines |-> Text(lines[i])]

\* C1: after the merge, the lines of the input file that are not monitor
\* directives are lines of the output file, with their text and in their order.
C1_NonDirectivesKept ==
    calls = 1 => IsSubseq(NonDirectiveTexts(InLines), Texts(OutLines))

\* C2: after the merge, a directive line for a monitor that is not a key of
\* the mapping is at its line position with its text.
C2_OtherDirectivesKept ==
    calls = 1 =>
        \A i \in DOMAIN InLines :
            (IsDirective(InLines[i]) /\ DirectiveName(InLines[i]) \notin Keys(configs))
                => (i <= Len(OutLines) /\ Text(OutLines[i]) = Text(InLines[i]))

\* C3: for each name of the mapping the only line replaced by its directive is
\* the first directive line for that name, in place; later directive lines
\* for the name keep their text.
C3_FirstMatchReplaced ==
    calls = 1 =>
        \A k \in DOMAIN configs :
            LET new == Text(MonitorLine(configs[k][2]))
                F   == {i \in DOMAIN InLines :
                           IsDirective(InLines[i])
                               /\ DirectiveName(InLines[i]) = configs[k][1]}
                R   == {i \in DOMAIN InLines :
                           /\ i <= Len(OutLines)
                           /\ Text(OutLines[i]) = new
                           /\ Text(InLines[i]) # new}
            IN  /\ R \subseteq (IF F = {} THEN {} ELSE {Min(F)})
                /\ F # {} => (Min(F) <= Len(OutLines) /\ Text(OutLines[Min(F)]) = new)
                /\ \A j \in F : j # Min(F) =>
                       (j <= Len(OutLines) /\ Text(OutLines[j]) = Text(InLines[j]))

\* C4: the output has one more line per name the scan left unmatched, each
\* that name's directive, after all the original lines, and no other new line.
C4_UnmatchedAppended ==
    calls = 1 =>
        LET left == ScanLines(InLines, configs, <<>>).remaining
        IN  /\ Len(OutLines) = Len(InLines) + Len(left)
            /\ \A k \in DOMAIN left :
                   OutLines[Len(InLines) + k] = MonitorLine(left[k][2])

\* C5: merging the same mapping a second time leaves the file as the first
\* merge wrote it.
C5_Idempotent == calls = 2 => conf = conf1

(***************************************************************************)
(* Numbers and their text                                                  *)
(***************************************************************************)
Abs(n) == IF n < 0 THEN -n ELSE n

Digits == <<"0", "1", "2", "3", "4", "5", "6", "7", "8", "9">>

RECURSIVE NatStr(_)
NatStr(n) ==
    IF n < 10 THEN <<Digits[n + 1]>>
    ELSE NatStr(n \div 10) \o <<Digits[(n % 10) + 1]>>

\* str(n) of an int
str(n) == IF n < 0 THEN <<"-">> \o NatStr(-n) ELSE NatStr(n)

\* round(n / d) for d > 0: Python rounds halves to the even neighbour
round(n, d) ==
    LET q == Abs(n) \div d
        r == Abs(n) % d
        m == IF 2 * r < d THEN q
             ELSE IF 2 * r > d THEN q + 1
             ELSE IF q % 2 = 0 THEN q ELSE q + 1
    IN  IF n < 0 THEN -m ELSE m

\* int(n / d) for d > 0: truncation toward zero
int(n, d) == IF n < 0 THEN -((-n) \div d) ELSE n \div d

(***************************************************************************)
(* Monitor info dicts.  A scale is a float in the source; here it is the  *)
(* exact number of hundredths (2.4 is 240), and every scale of the model  *)
(* divides the model's resolutions the way the float division does.       *)
(***************************************************************************)
Mon(name, w, h, rate, scale, x, y, enabled) ==
    [name |-> name, width |-> w, height |-> h, rate |-> rate,
     scale |-> scale, x |-> x, y |-> y, enabled |-> enabled]

\* mutant: the target itself is accepted as the anchor
get_active_monitor_any(all, exclude_name) ==
    LET ok == {i \in DOMAIN all : all[i].enabled}
    IN  IF ok = {} THEN None ELSE all[Min(ok)]

\* get_active_monitor(exclude_name): the first enabled monitor with another name
get_active_monitor(all, exclude_name) ==
    LET ok == {i \in DOMAIN all : all[i].enabled /\ all[i].name # exclude_name}
    IN  IF ok = {} THEN None ELSE all[Min(ok)]

\* get_monitor_by_name(name)
get_monitor_by_name(all, name) ==
    LET ok == {i \in DOMAIN all : all[i].name = name}
    IN  IF ok = {} THEN None ELSE all[Min(ok)]

(***************************************************************************)
(* Geometry helpers                                                        *)
(***************************************************************************)
\* logical_size(mon): (int(width / scale), int(height / scale))
logical_size(mon) ==
    <<int(mon.width * 100, mon.scale), int(mon.height * 100, mon.scale)>>

\* mutant: "left" and "above" subtract the current monitor's size
calc_hypr_position_own_size(position, cur, new, off) ==
    LET cw == logical_size(cur)[1]
        ch == logical_size(cur)[2]
    IN  CASE position = "right" -> <<cur.x + cw, cur.y + off>>
          [] position = "left"  -> <<cur.x - cw, cur.y + off>>
          [] position = "below" -> <<cur.x + off, cur.y + ch>>
          [] position = "above" -> <<cur.x + off, cur.y - ch>>

\* mutant: the offset is added on both axes
calc_hypr_position_both_axes(position, cur, new, off) ==
    LET cw == logical_size(cur)[1]
        ch == logical_size(cur)[2]
        nw == logical_size(new)[1]
        nh == logical_size(new)[2]
    IN  CASE position = "right" -> <<cur.x + cw + off, cur.y + off>>
          [] position = "left"  -> <<cur.x - nw + off, cur.y + off>>
          [] position = "below" -> <<cur.x + off, cur.y + ch + off>>
          [] position = "above" -> <<cur.x + off, cur.y - nh + off>>

\* calc_hypr_position(position, current, new, offset)
calc_hypr_position(position, cur, new, off) ==
    LET cw == logical_size(cur)[1]
        ch == logical_size(cur)[2]
        nw == logical_size(new)[1]
        nh == logical_size(new)[2]
    IN  CASE position = "right" -> <<cur.x + cw, cur.y + off>>
          [] position = "left"  -> <<cur.x - nw, cur.y + off>>
          [] position = "below" -> <<cur.x + off, cur.y + ch>>
          [] position = "above" -> <<cur.x + off, cur.y - nh>>

\* _format_scale(scale_tenths)
_format_scale(scale_tenths) ==
    IF scale_tenths % 10 = 0 THEN str(scale_tenths \div 10)
    ELSE str(scale_tenths \div 10) \o <<".">> \o str(scale_tenths % 10)

\* _scale_tenths_from(mon): round(mon["scale"] * 10)
_scale_tenths_from(mon) == round(mon.scale, 10)

\* _mon_config_str(mon, x, y, scale_tenths)
_mon_config_str(mon, x, y, scale_tenths) ==
    mon.name \o <<",", " ">> \o str(mon.width) \o <<"x">> \o str(mon.height)
        \o <<"@">> \o str(mon.rate) \o <<",", " ">> \o str(x) \o <<"x">> \o str(y)
        \o <<",", " ">> \o _format_scale(scale_tenths)

\* _mon_config_str(mon) with the defaults of its optional arguments
_mon_config_str_default(mon) ==
    _mon_config_str(mon, mon.x, mon.y, _scale_tenths_from(mon))

\* mutant: rectangles that only touch count as overlapping
monitors_overlap_touching(cur, new_x, new_y, new) ==
    LET aw == logical_size(cur)[1]
        ah == logical_size(cur)[2]
        bw == logical_size(new)[1]
        bh == logical_size(new)[2]
    IN  /\ new_x <= cur.x + aw
        /\ new_x + bw >= cur.x
        /\ new_y <= cur.y + ah
        /\ new_y + bh >= cur.y

\* monitors_overlap(current, new_x, new_y, new_mon)
monitors_overlap(cur, new_x, new_y, new) ==
    LET aw == logical_size(cur)[1]
        ah == logical_size(cur)[2]
        bw == logical_size(new)[1]
        bh == logical_size(new)[2]
    IN  /\ new_x < cur.x + aw
        /\ new_x + bw > cur.x
        /\ new_y < cur.y + ah
        /\ new_y + bh > cur.y

(***************************************************************************)
(* Arithmetic expression helpers: the text of the symbolic form            *)
(***************************************************************************)
\* _scale_div_expr(value, scale_tenths)
_scale_div_expr(value, scale_tenths) ==
    IF scale_tenths % 10 = 0
    THEN str(value) \o <<" ", "/", " ">> \o str(scale_tenths \div 10)
    ELSE str(value) \o <<" ", "*", " ", "1", "0", " ", "/", " ">>
             \o str(scale_tenths)

\* _build_pos_exprs._add
_add(base, extra_expr) ==
    IF base = 0 THEN extra_expr
    ELSE str(base) \o <<" ", "+", " ", "(">> \o extra_expr \o <<")">>

\* _build_pos_exprs._sub
_sub(base, extra_expr) ==
    IF base = 0 THEN <<"0", " ", "-", " ", "(">> \o extra_expr \o <<")">>
    ELSE str(base) \o <<" ", "-", " ", "(">> \o extra_expr \o <<")">>

\* _build_pos_exprs._with_offset
_with_offset(val, off) ==
    IF off = 0 THEN str(val)
    ELSE IF off > 0 THEN str(val) \o <<" ", "+", " ">> \o str(off)
    ELSE str(val) \o <<" ", "-", " ">> \o str(Abs(off))

\* f"$(({...}))"
Arith(expr) == <<"$", "(", "(">> \o expr \o <<")", ")">>

\* _build_pos_exprs(position, current, new, offset, new_scale_tenths)
_build_pos_exprs(position, cur, new, off, tenths) ==
    LET cs == _scale_tenths_from(cur)
        ns == tenths
    IN  CASE position = "right" ->
                <<Arith(_add(cur.x, _scale_div_expr(cur.width, cs))),
                  Arith(_with_offset(cur.y, off))>>
          [] position = "left" ->
                <<Arith(_sub(cur.x, _scale_div_expr(new.width, ns))),
                  Arith(_with_offset(cur.y, off))>>
          [] position = "below" ->
                <<Arith(_with_offset(cur.x, off)),
                  Arith(_add(cur.y, _scale_div_expr(cur.height, cs)))>>
          [] position = "above" ->
                <<Arith(_with_offset(cur.x, off)),
                  Arith(_sub(cur.y, _scale_div_expr(new.height, ns)))>>

\* 'hyprctl keyword monitor "'
HyprctlKeywordMonitor ==
    <<"h", "y", "p", "r", "c", "t", "l", " ", "k", "e", "y", "w", "o", "r", "d",
      " ">> \o KEYWORD \o <<" ", "\"">>

\* one line of _build_display_cmd
DisplayCmdLine(mon, xText, yText, scaleText) ==
    HyprctlKeywordMonitor \o mon.name \o <<",", " ">> \o str(mon.width)
        \o <<"x">> \o str(mon.height) \o <<"@">> \o str(mon.rate)
        \o <<",", " ">> \o xText \o <<"x">> \o yText \o <<",", " ">>
        \o scaleText \o <<"\"">>

\* MonitorPicker._build_display_cmd, as the lines of the text it returns
_build_display_cmd(cur, new, pos, off, tenths) ==
    LET exprs == _build_pos_exprs(pos, cur, new, off, tenths)
    IN  <<DisplayCmdLine(cur, str(cur.x), str(cur.y),
                         _format_scale(_scale_tenths_from(cur))),
          DisplayCmdLine(new, exprs[1], exprs[2], _format_scale(tenths))>>

(***************************************************************************)
(* MonitorPicker: session state and key handling                           *)
(***************************************************************************)
CoarseStep == 25
FineStep == 1
MinScaleTenths == 5
MaxScaleTenths == 50

POSITIONS == <<"below", "right", "above", "left">>
POS_MAP == [Right |-> "right", Left |-> "left", Up |-> "below", Down |-> "above"]

\* POSITIONS.index(v)
IndexOf(v) == Min({i \in DOMAIN POSITIONS : POSITIONS[i] = v}) - 1

\* MonitorPicker.position
position == POSITIONS[pos_index + 1]

\* MonitorPicker._sync_scale: new_mon["scale"] = new_scale_tenths / 10.0
_sync_scale(mon, tenths) == [mon EXCEPT !.scale = tenths * 10]

\* MonitorPicker._snap_offsets: the set that the source sorts
_snap_offsets(cur, new, pos) ==
    IF pos \in {"right", "left"}
    THEN {round((new.height - cur.height) * 100, 2 * cur.scale),
          round((cur.height - new.height) * 100, 2 * cur.scale),
          round((new.height + cur.height) * 100, 2 * cur.scale),
          round(-(new.height + cur.height) * 100, 2 * cur.scale)}
    ELSE {round((new.width - cur.width) * 100, 2 * cur.scale),
          round((cur.width - new.width) * 100, 2 * cur.scale),
          round((new.width + cur.width) * 100, 2 * cur.scale),
          round(-(new.width + cur.width) * 100, 2 * cur.scale)}

Max(S) == CHOOSE x \in S : \A y \in S : x >= y

\* mutant: no snapping, the stepped value is used
_snap_offset_raw(snaps, old, new, moving_positive) == new

\* mutant: a candidate equal to the old offset counts as crossed
_snap_offset_at_old(snaps, old, new, moving_positive) ==
    IF moving_positive
    THEN LET candidates == {c \in snaps : c >= old /\ c <= new}
         IN  IF candidates # {} THEN Min(candidates) ELSE new
    ELSE LET candidates == {c \in snaps : c <= old /\ c >= new}
         IN  IF candidates # {} THEN Max(candidates) ELSE new

\* MonitorPicker._snap_offset(old, new, moving_positive)
_snap_offset(snaps, old, new, moving_positive) ==
    IF moving_positive
    THEN LET candidates == {c \in snaps : c > old /\ c <= new}
         IN  IF candidates # {} THEN Min(candidates) ELSE new
    ELSE LET candidates == {c \in snaps : c < old /\ c >= new}
         IN  IF candidates # {} THEN Max(candidates) ELSE new

\* on_key: is_offset_key
is_offset_key(pos, key) ==
    \/ pos \in {"right", "left"} /\ key \in {"Up", "Down"}
    \/ pos \in {"above", "below"} /\ key \in {"Left", "Right"}

\* mutant: Alt is tested before Shift, so Alt+Shift is a coarse step
new_offset_alt_first(ev, cur, new, pos, off) ==
    LET step == IF ev.alt THEN CoarseStep ELSE FineStep
        positive == ev.key \in {"Down", "Right"}
        delta == IF positive THEN step ELSE -step
    IN  IF ~is_offset_key(pos, ev.key) THEN off
        ELSE IF ev.alt
             THEN _snap_offset(_snap_offsets(cur, new, pos), off, off + delta,
                               delta > 0)
             ELSE off + delta

\* on_key, the alt-or-shift branch of an arrow key: the offset it leaves
new_offset(ev, cur, new, pos, off) ==
    LET step == IF ev.shift THEN FineStep ELSE CoarseStep
        positive == ev.key \in {"Down", "Right"}
        delta == IF positive THEN step ELSE -step
    IN  IF ~is_offset_key(pos, ev.key) THEN off
        ELSE IF ~ev.shift
             THEN _snap_offset(_snap_offsets(cur, new, pos), off, off + delta,
                               delta > 0)
             ELSE off + delta

\* MonitorPicker._update_cmd: the command view and the overlap flag follow
\* the state the handler leaves
_update_cmd ==
    /\ cmd_text' = _build_display_cmd(current', new_mon', position', offset',
                                      new_scale_tenths')
    /\ overlap' =
           LET b == calc_hypr_position(position', current', new_mon', offset')
           IN  monitors_overlap(current', b[1], b[2], new_mon')

\* MonitorPicker._new_config_str
_new_config_str(cur, new, pos, off, tenths) ==
    LET xy == calc_hypr_position(pos, cur, new, off)
    IN  _mon_config_str(new, xy[1], xy[2], tenths)

\* key events: the name of the key and the modifiers left by _CLEAN_MASK
Ev(key, ctrl, alt, shift) ==
    [key |-> key, ctrl |-> ctrl, alt |-> alt, shift |-> shift]
Arrows == {"Right", "Left", "Up", "Down"}
KeyEvents ==
    {Ev(k, FALSE, FALSE, FALSE) :
        k \in {"Escape", "Return", "KP_Enter", "c", "s", "S", "Tab"} \cup Arrows}
        \cup {Ev(k, FALSE, a, sh) : k \in Arrows, a \in BOOLEAN, sh \in BOOLEAN}
        \cup {Ev(k, TRUE, FALSE, FALSE) : k \in {"c", "C", "s"}}

InSession == pc = "session" /\ nkeys < MaxKeys

\* on_key, key == "Escape"
KeyEscape ==
    /\ InSession
    /\ \E ev \in KeyEvents : ev.key = "Escape"
    /\ pc' = "quit"
    /\ ended_by' = "Escape"
    /\ nkeys' = nkeys + 1
    /\ UNCHANGED <<mergeVars, envVars, pickerVars, stdout, stderr, exit_code,
                   write_failed>>
    /\ last_ev' = NoEv
    /\ UNCHANGED viewVars

\* the mapping that on_key hands to rewrite_monitors_conf
ConfirmConfigs(cur_cfg, new_cfg) ==
    <<<<current.name, cur_cfg>>, <<new_mon.name, new_cfg>>>>

\* on_key, key in ("Return", "KP_Enter"), when monitors.conf can be written
KeyConfirm ==
    /\ InSession
    /\ writable
    /\ \E ev \in KeyEvents : ev.key \in {"Return", "KP_Enter"}
    /\ LET cur_cfg == _mon_config_str_default(current)
           new_cfg == _new_config_str(current, new_mon, position, offset,
                                      new_scale_tenths)
       IN  /\ result' = <<cur_cfg, new_cfg>>
           /\ configs' = ConfirmConfigs(cur_cfg, new_cfg)
           /\ conf' = rewrite_monitors_conf(configs', conf)
    /\ calls' = calls + 1
    /\ pc' = "quit"
    /\ ended_by' = "Return"
    /\ nkeys' = nkeys + 1
    /\ UNCHANGED <<conf0, conf1, envVars, current, new_mon, pos_index, offset,
                   new_scale_tenths, stdout, stderr, exit_code, write_failed>>
    /\ last_ev' = NoEv
    /\ UNCHANGED viewVars

\* on_key, key in ("Return", "KP_Enter"), when open(MONITORS_CONF, "w") raises:
\* self.result is already set, Gtk.main_quit is not reached.  The toolkit's
\* dispatcher either reports the exception and keeps the main loop running,
\* or the exception ends the process.
KeyConfirmFails ==
    /\ InSession
    /\ ~writable
    /\ \E ev \in KeyEvents : ev.key \in {"Return", "KP_Enter"}
    /\ LET cur_cfg == _mon_config_str_default(current)
           new_cfg == _new_config_str(current, new_mon, position, offset,
                                      new_scale_tenths)
       IN  /\ result' = <<cur_cfg, new_cfg>>
           /\ configs' = ConfirmConfigs(cur_cfg, new_cfg)
    /\ write_failed' = TRUE
    /\ stderr' = Append(stderr, [msg |-> "Traceback", arg |-> <<>>])
    /\ nkeys' = nkeys + 1
    /\ \/ UNCHANGED <<pc, exit_code>>
       \/ pc' = "exited" /\ exit_code' = 1
    /\ UNCHANGED <<conf, conf0, conf1, calls, envVars, current, new_mon,
                   pos_index, offset, new_scale_tenths, stdout, ended_by>>
    /\ last_ev' = NoEv
    /\ UNCHANGED viewVars

\* on_key, Ctrl+C: the command goes to the clipboard, the session state stays
KeyCopy ==
    /\ InSession
    /\ \E ev \in KeyEvents :
           ev.key \notin {"Escape", "Return", "KP_Enter"}
               /\ ev.ctrl /\ ev.key \in {"c", "C"}
    /\ nkeys' = nkeys + 1
    /\ UNCHANGED <<mergeVars, envVars, pickerVars, pc, stdout, stderr,
                   exit_code, ended_by, write_failed>>
    /\ last_ev' = NoEv
    /\ UNCHANGED viewVars

\* on_key, key in POS_MAP: plain arrow = position, Alt = coarse offset step
\* with snapping, Shift = fine offset step; then _sync_scale
KeyArrow ==
    /\ InSession
    /\ \E ev \in KeyEvents :
        /\ ev.key \in Arrows
        /\ ~(ev.ctrl /\ ev.key \in {"c", "C"})
        /\ IF ev.alt \/ ev.shift
           THEN /\ offset' = new_offset(ev, current, new_mon, position, offset)
                /\ UNCHANGED pos_index
                /\ last_ev' = IF is_offset_key(position, ev.key) THEN ev ELSE NoEv
           ELSE /\ pos_index' = IndexOf(POS_MAP[ev.key])
                /\ offset' = 0
                /\ last_ev' = NoEv
    /\ Abs(offset') <= MaxOffset
    /\ new_mon' = _sync_scale(new_mon, new_scale_tenths)
    /\ nkeys' = nkeys + 1
    /\ UNCHANGED <<mergeVars, envVars, current, new_scale_tenths, result, pc,
                   stdout, stderr, exit_code, ended_by, write_failed>>
    /\ _update_cmd

\* on_key, key == "s": scale down by one tenth
KeyScaleDown ==
    /\ InSession
    /\ \E ev \in KeyEvents : ev.key = "s" /\ ~(ev.ctrl /\ ev.key \in {"c", "C"})
    /\ new_scale_tenths' = Max({MinScaleTenths, new_scale_tenths - 1})
    /\ new_mon' = _sync_scale(new_mon, new_scale_tenths')
    /\ nkeys' = nkeys + 1
    /\ UNCHANGED <<mergeVars, envVars, current, pos_index, offset, result, pc,
                   stdout, stderr, exit_code, ended_by, write_failed>>
    /\ last_ev' = NoEv
    /\ _update_cmd

\* on_key, key == "S": scale up by one tenth
KeyScaleUp ==
    /\ InSession
    /\ \E ev \in KeyEvents : ev.key = "S" /\ ~(ev.ctrl /\ ev.key \in {"c", "C"})
    /\ new_scale_tenths' = Min({MaxScaleTenths, new_scale_tenths + 1})
    /\ new_mon' = _sync_scale(new_mon, new_scale_tenths')
    /\ nkeys' = nkeys + 1
    /\ UNCHANGED <<mergeVars, envVars, current, pos_index, offset, result, pc,
                   stdout, stderr, exit_code, ended_by, write_failed>>
    /\ last_ev' = NoEv
    /\ _update_cmd

\* on_key, any other key: not handled
KeyOther ==
    /\ InSession
    /\ \E ev \in KeyEvents :
           /\ ev.key \notin {"Escape", "Return", "KP_Enter", "s", "S"} \cup Arrows
           /\ ~(ev.ctrl /\ ev.key \in {"c", "C"})
    /\ nkeys' = nkeys + 1
    /\ UNCHANGED <<mergeVars, envVars, pickerVars, pc, stdout, stderr,
                   exit_code, ended_by, write_failed>>
    /\ last_ev' = NoEv
    /\ UNCHANGED viewVars

(***************************************************************************)
(* main                                                                    *)
(***************************************************************************)
\* print(..., file=sys.stderr); sys.exit(1)
Fail(msg, arg) ==
    /\ stderr' = Append(stderr, [msg |-> msg, arg |-> arg])
    /\ exit_code' = 1
    /\ pc' = "exited"
    /\ UNCHANGED <<mergeVars, envVars, pickerVars, stdout, nkeys, ended_by,
                   write_failed>>
    /\ UNCHANGED <<viewVars, last_ev>>

\* len(sys.argv) < 2
MainUsage ==
    /\ pc = "main"
    /\ Len(args) < 1
    /\ Fail("Usage: monitor-picker.py <monitor-to-place>", <<>>)

\* get_active_monitor(target_name) found nothing
MainNoActive ==
    /\ pc = "main"
    /\ Len(args) >= 1
    /\ get_active_monitor(snapshot, args[1]) = None
    /\ Fail("No active monitor found", <<>>)

\* get_monitor_by_name(target_name) found nothing
MainUnknown ==
    /\ pc = "main"
    /\ Len(args) >= 1
    /\ get_active_monitor(snapshot, args[1]) # None
    /\ get_monitor_by_name(snapshot, args[1]) = None
    /\ Fail("Unknown monitor: ", args[1])

\* MonitorPicker(current, new_mon); Gtk.main()
MainStart ==
    /\ pc = "main"
    /\ Len(args) >= 1
    /\ get_active_monitor(snapshot, args[1]) # None
    /\ get_monitor_by_name(snapshot, args[1]) # None
    /\ current' = get_active_monitor(snapshot, args[1])
    /\ new_mon' = get_monitor_by_name(snapshot, args[1])
    /\ pos_index' = 1
    /\ offset' = 0
    /\ new_scale_tenths' = _scale_tenths_from(new_mon')
    /\ result' = None
    /\ pc' = "session"
    /\ UNCHANGED <<mergeVars, envVars, stdout, stderr, exit_code, nkeys,
                   ended_by, write_failed>>
    /\ UNCHANGED last_ev
    /\ _update_cmd

\* after Gtk.main() returns, picker.result is set: print both, sys.exit(0)
MainPrint ==
    /\ pc = "quit"
    /\ result # None
    /\ stdout' = stdout \o result
    /\ exit_code' = 0
    /\ pc' = "exited"
    /\ UNCHANGED <<mergeVars, envVars, pickerVars, stderr, nkeys, ended_by,
                   write_failed>>
    /\ UNCHANGED <<viewVars, last_ev>>

\* after Gtk.main() returns, picker.result is None: sys.exit(1)
MainCancelled ==
    /\ pc = "quit"
    /\ result = None
    /\ exit_code' = 1
    /\ pc' = "exited"
    /\ UNCHANGED <<mergeVars, envVars, pickerVars, stdout, stderr, nkeys,
                   ended_by, write_failed>>
    /\ UNCHANGED <<viewVars, last_ev>>

(***************************************************************************)
(* Spec: one run of the program                                            *)
(***************************************************************************)
\* scales an enabled output reports, in hundredths
NativeScales == {25, 50, 125, 240, 500, 600}

\* the laptop panel, enabled at the origin or disabled
Panel(enabled) ==
    Mon(eDP1, 2560, 1600, 180, IF enabled THEN 200 ELSE 100, 0, 0, enabled)
\* an external output, enabled at some scale
External(scale) == Mon(DP1, 3840, 2160, 120, scale, 1280, 0, TRUE)
\* the external output while disabled: no scale or position is reported
ExternalOff == Mon(DP1, 3840, 2160, 120, 100, 0, 0, FALSE)
\* a second external output
Second == Mon(DP10, 1920, 1080, 60, 100, -1920, 0, TRUE)

Panels == {Panel(e) : e \in BOOLEAN}
Externals == {ExternalOff} \cup {External(sc) : sc \in NativeScales}

Snapshots ==
    {<<>>} \cup {<<m>> : m \in Panels \cup Externals}
        \cup {<<p, x>> : p \in Panels, x \in Externals}
        \cup {<<ExternalOff, Panel(TRUE)>>,
              <<Second, Panel(TRUE), ExternalOff>>,
              <<Panel(TRUE), Second, ExternalOff>>}

ArgLists == {<<>>} \cup {<<n>> : n \in OutputNames}

SessionFiles ==
    {NoFile,
     [exists |-> TRUE,
      data |-> FileText(<<Comment, OldDirective(eDP1), EnvLine>>, TRUE)]}

Init ==
    /\ pc = "main"
    /\ args \in ArgLists
    /\ snapshot \in Snapshots
    /\ writable \in BOOLEAN
    /\ conf0 \in SessionFiles
    /\ conf = conf0
    /\ conf1 = conf0
    /\ configs = <<>>
    /\ calls = 0
    /\ current = None
    /\ new_mon = None
    /\ pos_index = 1
    /\ offset = 0
    /\ new_scale_tenths = 10
    /\ result = None
    /\ stdout = <<>>
    /\ stderr = <<>>
    /\ exit_code = -1
    /\ nkeys = 0
    /\ ended_by = "none"
    /\ write_failed = FALSE
    /\ cmd_text = <<>>
    /\ overlap = FALSE
    /\ last_ev = NoEv

Next ==
    \/ MainUsage
    \/ MainNoActive
    \/ MainUnknown
    \/ MainStart
    \/ KeyEscape
    \/ KeyConfirm
    \/ KeyConfirmFails
    \/ KeyCopy
    \/ KeyArrow
    \/ KeyScaleDown
    \/ KeyScaleUp
    \/ KeyOther
    \/ MainPrint
    \/ MainCancelled

Spec == Init /\ [][Next]_vars

(***************************************************************************)
(* Vocabulary of the claims about a run                                    *)
(***************************************************************************)
Started == current # None
ExitedBy(key) == pc = "exited" /\ ended_by = key
Reported(msg) == Len(stderr) = 1 /\ stderr[1].msg = msg

\* the placement table: logical size is the native size divided by the scale,
\* truncated
logicalWidth(m) == (m.width * 100) \div m.scale
logicalHeight(m) == (m.height * 100) \div m.scale
computePosition(p, cur, new, off) ==
    <<IF p = "right" THEN cur.x + logicalWidth(cur)
      ELSE IF p = "left" THEN cur.x - logicalWidth(new)
      ELSE cur.x + off,
      IF p = "below" THEN cur.y + logicalHeight(cur)
      ELSE IF p = "above" THEN cur.y - logicalHeight(new)
      ELSE cur.y + off>>

\* 20 -> "2", 24 -> "2.4"
formatScale(t) ==
    IF t % 10 = 0 THEN NatStr(t \div 10)
    ELSE NatStr(t \div 10) \o <<".", Digits[(t % 10) + 1]>>

\* "<name>, <w>x<h>@<rate>, <x>x<y>, <scale>"
literalForm(m, x, y, scaleText) ==
    m.name \o <<",", " ">> \o str(m.width) \o <<"x">> \o str(m.height) \o <<"@">>
        \o str(m.rate) \o <<",", " ">> \o str(x) \o <<"x">> \o str(y)
        \o <<",", " ">> \o scaleText

\* C6: whenever monitors.conf has been written, or writing it has failed, the
\* two directive lines are already on the output stream.
C6_PrintBeforePersist == (calls > 0 \/ write_failed) => Len(stdout) = 2

\* C7: a session ended by Escape leaves monitors.conf as it was at the start,
\* prints no directive and exits 1; the file differs from its initial content
\* only after a confirmation.
C7_CancelHasNoEffect ==
    /\ ExitedBy("Escape") => (conf = conf0 /\ stdout = <<>> /\ exit_code = 1)
    /\ conf # conf0 => ended_by = "Return"

TargetEntries == {i \in DOMAIN snapshot : snapshot[i].name = args[1]}
Missing == args = <<>>
Unknown == ~Missing /\ TargetEntries = {}
Disabled == ~Missing /\ \E i \in TargetEntries : ~snapshot[i].enabled
Valid == ~Missing /\ \E i \in TargetEntries : snapshot[i].enabled
NoAnchor ==
    ~Missing /\ \A i \in DOMAIN snapshot :
                    ~(snapshot[i].enabled /\ snapshot[i].name # args[1])
UsageReported ==
    \/ Reported("Usage: monitor-picker.py <monitor-to-place>")
    \/ Reported("Unknown monitor: ")
NoAnchorReported == Reported("No active monitor found")
FailedAtStart == pc = "exited" /\ exit_code = 1 /\ ~Started /\ stdout = <<>>

\* C9 as stated: a missing argument, an unknown name and a disabled target are
\* usage errors; no anchor for a valid target is the no-anchor error; an
\* unknown name is never reported as the no-anchor error.
C9_Original ==
    pc # "main" =>
        /\ (Missing \/ Unknown \/ Disabled) => (FailedAtStart /\ UsageReported)
        /\ (Valid /\ NoAnchor) => (FailedAtStart /\ NoAnchorReported)
        /\ Unknown => ~NoAnchorReported

\* C9 amended: a missing argument is the usage error; otherwise no enabled
\* monitor besides the target is the no-anchor error, whether or not the name
\* is known; otherwise an unknown name is the unknown-monitor error; otherwise
\* (the target is in the snapshot, enabled or not) the session starts.  Every
\* start-up failure exits 1 with one message, before any session.
C9_StartupErrors ==
    pc # "main" =>
        /\ Missing =>
               (FailedAtStart /\ Reported("Usage: monitor-picker.py <monitor-to-place>"))
        /\ NoAnchor => (FailedAtStart /\ NoAnchorReported)
        /\ (Unknown /\ ~NoAnchor) =>
               (FailedAtStart /\ Reported("Unknown monitor: ") /\ stderr[1].arg = args[1])
        /\ (~Missing /\ ~NoAnchor /\ ~Unknown) =>
               (Started /\ current.enabled /\ current.name # args[1]
                    /\ new_mon.name = args[1])

\* C9 witness: an unknown name reported as the no-anchor error
C9_Witness == Unknown /\ NoAnchor /\ FailedAtStart /\ NoAnchorReported

\* C10: in a session newScaleTenths is between 5 and 50.
C10_ScaleInRange ==
    Started => new_scale_tenths \in MinScaleTenths..MaxScaleTenths

(***************************************************************************)
(* Vocabulary of the claims about the symbolic form: the value a shell     *)
(* gives to $(( ... )), with + - * / on integers, parentheses, and a       *)
(* division that truncates toward zero                                     *)
(***************************************************************************)
IsDigit(c) == \E d \in DOMAIN Digits : Digits[d] = c
DigitVal(c) == (CHOOSE d \in DOMAIN Digits : Digits[d] = c) - 1
TruncDiv(a, b) ==
    IF (a < 0) = (b < 0) THEN Abs(a) \div Abs(b) ELSE -(Abs(a) \div Abs(b))

RECURSIVE SkipSp(_, _)
SkipSp(s, i) == IF i <= Len(s) /\ s[i] = " " THEN SkipSp(s, i + 1) ELSE i

At(s, i, c) == i <= Len(s) /\ s[i] = c

RECURSIVE ReadNum(_, _, _)
ReadNum(s, i, acc) ==
    IF i <= Len(s) /\ IsDigit(s[i])
    THEN ReadNum(s, i + 1, acc * 10 + DigitVal(s[i]))
    ELSE [val |-> acc, next |-> i]

RECURSIVE ArithExpr(_, _)
RECURSIVE ArithExprTail(_, _, _)
RECURSIVE ArithTerm(_, _)
RECURSIVE ArithTermTail(_, _, _)
RECURSIVE ArithFactor(_, _)

ArithFactor(s, i) ==
    LET j == SkipSp(s, i)
    IN  IF At(s, j, "(")
        THEN LET e == ArithExpr(s, j + 1)
             IN  [val |-> e.val, next |-> SkipSp(s, e.next) + 1]
        ELSE IF At(s, j, "-")
        THEN LET f == ArithFactor(s, j + 1)
             IN  [val |-> -f.val, next |-> f.next]
        ELSE ReadNum(s, j, 0)

ArithTermTail(s, i, acc) ==
    LET j == SkipSp(s, i)
    IN  IF At(s, j, "*")
        THEN LET f == ArithFactor(s, j + 1)
             IN  ArithTermTail(s, f.next, acc * f.val)
        ELSE IF At(s, j, "/")
        THEN LET f == ArithFactor(s, j + 1)
             IN  ArithTermTail(s, f.next, TruncDiv(acc, f.val))
        ELSE [val |-> acc, next |-> j]

ArithTerm(s, i) ==
    LET f == ArithFactor(s, i) IN ArithTermTail(s, f.next, f.val)

ArithExprTail(s, i, acc) ==
    LET j == SkipSp(s, i)
    IN  IF At(s, j, "+")
        THEN LET t == ArithTerm(s, j + 1)
             IN  ArithExprTail(s, t.next, acc + t.val)
        ELSE IF At(s, j, "-")
        THEN LET t == ArithTerm(s, j + 1)
             IN  ArithExprTail(s, t.next, acc - t.val)
        ELSE [val |-> acc, next |-> j]

ArithExpr(s, i) ==
    LET t == ArithTerm(s, i) IN ArithExprTail(s, t.next, t.val)

\* the value of the "$((...))" that starts at s[i], and where it ends
ArithValue(s, i) ==
    LET e == ArithExpr(s, i + 3) IN [val |-> e.val, next |-> e.next + 2]

\* the fields of a directive, which are separated by ", "
RECURSIVE Fields(_)
Fields(s) ==
    LET cuts == {i \in 1..(Len(s) - 1) : s[i] = "," /\ s[i + 1] = " "}
    IN  IF cuts = {} THEN <<s>>
        ELSE <<SubSeq(s, 1, Min(cuts) - 1)>>
                 \o Fields(SubSeq(s, Min(cuts) + 2, Len(s)))

\* the position a shell computes from a symbolic directive "..., X x Y, ..."
SymbolicPosition(line) ==
    LET f == Fields(line)[3]
        x == ArithValue(f, 1)
        y == ArithValue(f, x.next + 1)
    IN  <<x.val, y.val>>

\* C11: in every session state, the initial one included, the scale field of
\* the new monitor equals newScaleTenths / 10.
C11_ScaleLockstep == Started => new_mon.scale = new_scale_tenths * 10

\* C12: whenever newScaleTenths is in [5,50] and is the new monitor's scale,
\* the position a shell evaluates from the symbolic directive in the command
\* view is the position calc_hypr_position returns for the session state.
C12_SymbolicEqualsLiteral ==
    (/\ Started
     /\ new_scale_tenths \in MinScaleTenths..MaxScaleTenths
     /\ new_mon.scale = new_scale_tenths * 10)
        => SymbolicPosition(cmd_text[2])
               = calc_hypr_position(position, current, new_mon, offset)

(***************************************************************************)
(* Vocabulary of the claims about offset steps                             *)
(***************************************************************************)
Sideways == position \in {"right", "left"}
PlacementCoord(xy) == IF Sideways THEN xy[1] ELSE xy[2]
PerpendicularCoord(xy) == IF Sideways THEN xy[2] ELSE xy[1]
Placed(off) == calc_hypr_position(position, current, new_mon, off)
\* offsets the placement is compared at, besides the session's own
OffsetProbes == {-MaxOffset, -CoarseStep, -FineStep, FineStep, CoarseStep, MaxOffset}

\* the step is the handling of an offset key: Alt or Shift with an arrow of
\* the perpendicular axis
OffsetKeyStep == nkeys' = nkeys + 1 /\ last_ev' # NoEv
FineKeyStep == OffsetKeyStep /\ last_ev'.shift
CoarseKeyStep == OffsetKeyStep /\ ~last_ev'.shift
Forward(ev) == ev.key \in {"Down", "Right"}
Sign(ev) == IF Forward(ev) THEN 1 ELSE -1

SnapCandidates == _snap_offsets(current, new_mon, position)
\* the candidates beyond `old` in the direction of `ev`, up to and including
\* `target`
Crossed(old, target, ev) ==
    {c \in SnapCandidates :
        IF Forward(ev) THEN c > old /\ c <= target ELSE c < old /\ c >= target}

\* C13: in a session the placement-axis coordinate is the same at the
\* session's offset, at offset 0 and at every probe offset, and the
\* perpendicular coordinate is the current monitor's plus the offset;
\* handling an offset key leaves the placement-axis coordinate of the new
\* monitor as it was.
C13_OffsetAxis ==
    /\ [](Started =>
            /\ \A o \in {offset} \cup OffsetProbes :
                   /\ PlacementCoord(Placed(o)) = PlacementCoord(Placed(0))
                   /\ PerpendicularCoord(Placed(o))
                          = (IF Sideways THEN current.y ELSE current.x) + o)
    /\ [][OffsetKeyStep =>
              PlacementCoord(Placed(offset))' = PlacementCoord(Placed(offset))]_vars

\* C13 witness: an offset key has moved a monitor placed on the left
C13_Witness == Started /\ position = "left" /\ last_ev # NoEv /\ offset # 0

\* C14: a coarse step from old towards old + delta ends on the crossed
\* candidate nearest to old when a candidate is crossed, and on old + delta
\* when none is.
C14_SnapRule ==
    [][CoarseKeyStep =>
          LET target == offset + Sign(last_ev') * CoarseStep
              X == Crossed(offset, target, last_ev')
          IN  IF X # {}
              THEN /\ offset' \in X
                   /\ \A c \in X : Abs(offset' - offset) <= Abs(c - offset)
              ELSE offset' = target]_vars

\* C14 witness: a coarse step has ended on a candidate short of the raw value
C14_Witness ==
    /\ Started /\ last_ev # NoEv /\ ~last_ev.shift
    /\ offset \in SnapCandidates
    /\ offset % CoarseStep # 0

\* C15: every coarse step moves the offset strictly in the direction of its
\* key, in particular when the offset is a snap candidate.
C15_SnapProgress ==
    [][CoarseKeyStep =>
          IF Forward(last_ev') THEN offset' > offset ELSE offset' < offset]_vars

\* C15 witness: a coarse step has left a candidate behind
C15_Witness ==
    /\ Started /\ last_ev # NoEv /\ ~last_ev.shift
    /\ (offset - Sign(last_ev) * CoarseStep) \in SnapCandidates

\* C16: a fine step, with or without Alt, changes the offset by exactly one
\* in the direction of its key and leaves the relative position and
\* newScaleTenths as they were.
C16_FineStep ==
    [][FineKeyStep =>
          /\ offset' = offset + Sign(last_ev') * FineStep
          /\ pos_index' = pos_index
          /\ new_scale_tenths' = new_scale_tenths]_vars

\* C16 witness: a fine step with Alt held has left a candidate by one
C16_Witness ==
    /\ Started /\ last_ev # NoEv /\ last_ev.shift /\ last_ev.alt
    /\ (offset - Sign(last_ev) * FineStep) \in SnapCandidates

\* C17: in a session the overlap flag is never raised.
C17_NoOverlapWarning == Started => ~overlap

\* C17 witness: a monitor placed above, moved sideways and rescaled
C17_Witness ==
    /\ Started /\ position = "above" /\ offset # 0
    /\ new_scale_tenths # _scale_tenths_from(get_monitor_by_name(snapshot, args[1]))

=============================================================================
